---- MODULE Spec2Model ----
(***************************************************************************)
(* Durable orchestration of the podcast pipeline (function_app.py): the    *)
(* two orchestrator generators, the HTTP starters that create instances,   *)
(* and the runtime around them (history log, replay, activity executor     *)
(* with retry, durable timers).  Time is in seconds.                       *)
(***************************************************************************)
EXTENDS Integers, Sequences, FiniteSets, TLC

VARIABLES
    clock,      \* wall clock (seconds)
    status,     \* instance id -> runtime status
    history,    \* instance id -> history log (sequence of events)
    output,     \* instance id -> output payload (set once terminal)
    inflight,   \* instance id -> the dispatched activity or timer
    calls,      \* instance id -> invocations made by the activity executor
    crashes,    \* dispatcher crashes so far
    request,    \* request id -> what the HTTP request carried
    response,   \* request id -> HTTP response of the starter
    storage,    \* blob storage: the blobs created, each in its container
    provider,   \* what the transcription provider answers to a check
    checked,    \* what get_transcription_result made of that answer
    search,     \* search service: index name -> the index of that name
    indexed,    \* the latest call of an activity on the search service
    poller      \* an orchestrator driven event by event, and what it scheduled

vars ==
    <<clock, status, history, output, inflight, calls, crashes, request,
      response, storage, provider, checked, search,
                   indexed, poller>>

-----------------------------------------------------------------------------
(* Bounds of the model *)

\* the provider answers a non-empty transcript or fails by the time this
\* many poll timers have been created
MaxPolls == 2
\* dispatcher crashes explored
MaxCrashes == 1
\* poll timers of an instance where two instances run side by side
MaxPollsTwo == 1
\* successive runs of an activity on the same index that are followed
MaxRuns == 3
\* the chunks of an index that match a query, at most
MaxMatches == 6
\* the wall clock (seconds) up to which a never-ready transcription is
\* followed: three times the polling window
Horizon == 21600

\* instance slots; one request per slot
AllInstances == {"i1", "i2"}
SingleInstance == {"i1"}

\* durations (seconds) of an activity attempt; the long ones bring the clock
\* next to the two-hour expiry within two polls
CheckDurations == {1, 3590, 3595}
OtherDurations == {1}
\* the time a crashed dispatcher takes to restart
RestartDelay == 30

-----------------------------------------------------------------------------
(* Values *)

None == "<None>"

\* Python truthiness of an activity result (None and "" are falsy)
Truthy(v) == v # None /\ v # ""

NoInput ==
    [file_url |-> None, podcast_id |-> None, query |-> None,
     filters |-> None, index_name |-> None]

NoOutput == [tag |-> "unset", val |-> None]
\* return <value>
ValueOutput(v) == [tag |-> "value", val |-> v]
\* return {"error": str(e)}
ErrorOutput(msg) == [tag |-> "error", val |-> msg]
\* return json.dumps({"index_name": index_name})
IndexNameOutput(n) == [tag |-> "index_name", val |-> n]

Ev(type, id, name, arg, val, ts) ==
    [type |-> type, id |-> id, name |-> name, arg |-> arg, val |-> val, ts |-> ts]

NoAction ==
    [type |-> "none", name |-> "", arg |-> <<>>, fireAt |-> 0,
     max_attempts |-> 1, retry_interval |-> 0]

\* (mutant) every activity is called under the query workflow's retry policy
CallActivityRetrying(name, arg) ==
    [type |-> "activity", name |-> name, arg |-> arg, fireAt |-> 0,
     max_attempts |-> 3, retry_interval |-> 3]

\* context.call_activity(name, input): no retry policy, one attempt
CallActivity(name, arg) ==
    [type |-> "activity", name |-> name, arg |-> arg, fireAt |-> 0,
     max_attempts |-> 1, retry_interval |-> 0]

CallActivityWithRetry(name, max, interval, arg) ==
    [type |-> "activity", name |-> name, arg |-> arg, fireAt |-> 0,
     max_attempts |-> max, retry_interval |-> interval]

CreateTimer(fireAt) ==
    [type |-> "timer", name |-> "", arg |-> <<>>, fireAt |-> fireAt,
     max_attempts |-> 1, retry_interval |-> 0]

-----------------------------------------------------------------------------
(* Program constants *)

MaxWaitHours == 2
\* (mutant) next_check = now + timedelta(seconds=5)
five_seconds == 10 \div 2
PollIntervalSeconds == 10
\* "# 2. Poll for completion (retry every 30 seconds for up to 2 hours)"
DocumentedPollSeconds == 30
\* (mutant) a tenfold first retry interval
thirty_seconds_in_milliseconds == 3000 * 10
first_retry_interval_in_milliseconds == 3000
\* (mutant) one attempt fewer
two_attempts == 3 - 1
max_number_of_attempts == 3

timedelta_hours(h) == h * 3600
timedelta_seconds(s) == s
RetryIntervalSeconds == first_retry_interval_in_milliseconds \div 1000

\* (mutant) return f"index-{podcast_id}"
get_index_name_prefixed(podcast_id) == "index-" \o podcast_id
\* return f"{podcast_id}-index"
get_index_name(podcast_id) == podcast_id \o "-index"

\* json.dumps of a dict of strings: the key/value list
json_dumps2(k1, v1, k2, v2) == <<k1, v1, k2, v2>>
json_dumps3(k1, v1, k2, v2, k3, v3) == <<k1, v1, k2, v2, k3, v3>>
\* json.loads(s)[key]
json_get(s, key) ==
    LET hits == {n \in 1..(Len(s) \div 2) : s[2 * n - 1] = key}
    IN  IF hits = {} THEN None ELSE s[2 * (CHOOSE n \in hits : TRUE)]

-----------------------------------------------------------------------------
(* The orchestrator generators.  g is the generator's frame: its locals,   *)
(* the line it is suspended at (pc), the action it yielded, and its result *)
(* once it has returned or raised.                                         *)

NewGen ==
    [orch |-> "", pc |-> "new", now |-> 0,
     file_url |-> None, podcast_id |-> None, index_name |-> None,
     query |-> None, filters |-> None,
     transcription_id |-> None, expiry_time |-> 0, transcript |-> None,
     action |-> NoAction, done |-> FALSE,
     result_status |-> "Running", result |-> NoOutput]

\* yield <action>, suspended at line pc
Yield(g, pc, action) == [g EXCEPT !.pc = pc, !.action = action]

\* the generator returns: the instance completes with that output (only an
\* exception that leaves the generator would fail it; both orchestrators
\* catch every Exception)
Return(g, out) ==
    [g EXCEPT !.pc = "end", !.action = NoAction, !.done = TRUE,
              !.result_status = "Completed", !.result = out]

\* context.current_utc_datetime: the timestamp replay took from the history;
\* wall is the wall clock of the replay, which the code does not read
WallClockNow(g, wall) == wall
CurrentUtcDateTime(g, wall) == g.now

\* except Exception as e: return {"error": str(e)}
transcribe_except(g, msg) == Return(g, ErrorOutput(msg))

\* (mutant) while True: the poll loop has no time bound
transcribe_while_forever(g, wall) ==
    Yield(g, "L119", CallActivity("check_transcription", <<g.transcription_id>>))

\* (mutant) the expiry is taken anew in every iteration of the poll loop
transcribe_while_moving(g, wall) ==
    Yield([g EXCEPT !.expiry_time = CurrentUtcDateTime(g, wall)
                                    + timedelta_hours(MaxWaitHours)],
          "L119", CallActivity("check_transcription", <<g.transcription_id>>))

\* while context.current_utc_datetime < expiry_time: yield check_transcription
\* (the loop's end is the function's end: an implicit return None)
transcribe_while(g, wall) ==
    IF CurrentUtcDateTime(g, wall) < g.expiry_time
    THEN Yield(g, "L119", CallActivity("check_transcription", <<g.transcription_id>>))
    ELSE Return(g, ValueOutput(None))

\* (mutant) adaptive backoff: the interval grows with the time spent polling
transcribe_timer_backoff(g, wall) ==
    Yield(g, "L131",
          CreateTimer(CurrentUtcDateTime(g, wall)
                      + timedelta_seconds(PollIntervalSeconds)
                      + (CurrentUtcDateTime(g, wall) + timedelta_hours(MaxWaitHours)
                            - g.expiry_time)))

\* next_check = now + timedelta(seconds=10); yield context.create_timer(next_check)
transcribe_timer(g, wall) ==
    Yield(g, "L131",
          CreateTimer(CurrentUtcDateTime(g, wall) + timedelta_seconds(PollIntervalSeconds)))

transcribe_start(g, input) ==
    LET g1 == [g EXCEPT !.orch = "transcribe_and_index_orchestrator",
                        !.file_url = input.file_url,
                        !.podcast_id = input.podcast_id,
                        !.index_name = get_index_name(input.podcast_id)]
    IN  Yield(g1, "L110", CallActivity("start_transcription", <<g1.file_url>>))

\* transcription_id = yield ...; if not transcription_id: raise ...;
\* expiry_time = context.current_utc_datetime + timedelta(hours=2)
after_start_transcription(g, val, wall) ==
    IF ~Truthy(val)
    THEN transcribe_except(g, "Transcription could not be started")
    ELSE transcribe_while(
            [g EXCEPT !.transcription_id = val,
                      !.expiry_time = CurrentUtcDateTime(g, wall)
                                      + timedelta_hours(MaxWaitHours)],
            wall)

\* (mutant) the transcript just received is not the one carried on
after_check_transcription_stale(g, val, wall) ==
    IF Truthy(val)
    THEN Yield(g, "L123", CallActivity("create_search_index", <<g.index_name>>))
    ELSE transcribe_timer(g, wall)

\* transcript = yield ...; if transcript: yield create_search_index,
\* else the poll timer
after_check_transcription(g, val, wall) ==
    IF Truthy(val)
    THEN Yield([g EXCEPT !.transcript = val], "L123",
               CallActivity("create_search_index", <<g.index_name>>))
    ELSE transcribe_timer([g EXCEPT !.transcript = val], wall)

\* yield context.call_activity("index_transcript", json.dumps({...}))
after_create_search_index(g) ==
    Yield(g, "L126",
          CallActivity("index_transcript",
                       json_dumps2("index_name", g.index_name,
                                   "transcript", g.transcript)))

\* return json.dumps({"index_name": index_name})
after_index_transcript(g) == Return(g, IndexNameOutput(g.index_name))

\* the generator resumes with the value of the task it yielded
transcribe_resume(g, val, wall) ==
    CASE g.pc = "L110" -> after_start_transcription(g, val, wall)
      [] g.pc = "L119" -> after_check_transcription(g, val, wall)
      [] g.pc = "L123" -> after_create_search_index(g)
      [] g.pc = "L126" -> after_index_transcript(g)
      [] g.pc = "L131" -> transcribe_while(g, wall)
      [] OTHER -> g

\* the task the generator yielded failed: the exception is thrown into it
transcribe_throw(g, msg, wall) == transcribe_except(g, msg)

rag_except(g, msg) == Return(g, ErrorOutput(msg))

rag_start(g, input) ==
    LET g1 == [g EXCEPT !.orch = "rag_query_orchestrator",
                        !.query = input.query,
                        !.filters = input.filters,
                        !.index_name = input.index_name]
    IN  Yield(g1, "L159",
              CallActivityWithRetry("process_rag_query",
                    max_number_of_attempts, RetryIntervalSeconds,
                    json_dumps3("query", g1.query, "filters", g1.filters,
                                "index_name", g1.index_name)))

rag_resume(g, val, wall) ==
    IF g.pc = "L159" THEN Return(g, ValueOutput(val)) ELSE g

rag_throw(g, msg, wall) == rag_except(g, msg)

-----------------------------------------------------------------------------
(* Replay: the runtime runs the generator over the history from the start. *)

GenStart(name, input) ==
    IF name = "transcribe_and_index_orchestrator"
    THEN transcribe_start(NewGen, input)
    ELSE rag_start(NewGen, input)

GenResume(g, val, wall) ==
    IF g.done THEN g
    ELSE IF g.orch = "transcribe_and_index_orchestrator"
    THEN transcribe_resume(g, val, wall)
    ELSE rag_resume(g, val, wall)

GenThrow(g, msg, wall) ==
    IF g.done THEN g
    ELSE IF g.orch = "transcribe_and_index_orchestrator"
    THEN transcribe_throw(g, msg, wall)
    ELSE rag_throw(g, msg, wall)

\* the input of an instance travels in its ExecutionStarted event
InputOf(e) ==
    [file_url |-> e.arg[1], podcast_id |-> e.arg[2], query |-> e.arg[3],
     filters |-> e.arg[4], index_name |-> e.arg[5]]

InputArg(input) ==
    <<input.file_url, input.podcast_id, input.query, input.filters,
      input.index_name>>

ProcessEvent(g, e, wall) ==
    CASE e.type = "OrchestratorStarted" -> [g EXCEPT !.now = e.ts]
      [] e.type = "ExecutionStarted" ->
            [GenStart(e.name, InputOf(e)) EXCEPT !.now = g.now]
      [] e.type = "TaskCompleted" -> GenResume(g, e.val, wall)
      [] e.type = "TaskFailed" -> GenThrow(g, e.val, wall)
      [] e.type = "TimerFired" -> GenResume(g, None, wall)
      [] OTHER -> g

RECURSIVE ReplayFrom(_, _, _)
ReplayFrom(g, hist, wall) ==
    IF hist = <<>> THEN g
    ELSE CHOOSE r \in {ReplayFrom(g1, Tail(hist), wall) :
                         g1 \in {ProcessEvent(g, Head(hist), wall)}} : TRUE

Replay(hist, wall) == ReplayFrom(NewGen, hist, wall)

-----------------------------------------------------------------------------
(* The transcription provider as check_transcription sees it              *)
(* (services/batch_transcriber.py).                                       *)

\* the outcome of a call: the value returned, or the message of the
\* exception raised
Returned(v) == [raised |-> FALSE, val |-> v]
Raised(msg) == [raised |-> TRUE, val |-> msg]
NoCheck == [raised |-> FALSE, val |-> "<not called>"]

\* "\n".join(texts)
RECURSIVE join(_)
join(texts) ==
    IF texts = <<>> THEN ""
    ELSE IF Len(texts) = 1 THEN texts[1]
    ELSE texts[1] \o "\n" \o join(Tail(texts))

\* what the provider answers to the requests of one check: the HTTP status
\* of each request, the job's status and error message, the link to the
\* result files, the content links of the result files, the phrases
ProviderResponses ==
    [status_http : {200, 500},
     status : {"NotStarted", "Running", "Succeeded", "Failed"},
     error : {None, "bad audio"},
     files : {None, "files-url"},
     files_http : {200, 500},
     results_files : {<<>>, <<None>>, <<"content-url">>},
     content_http : {200, 500},
     phrases : {<<>>, <<"hello world">>}]

NoProviderResponse ==
    [status_http |-> 0, status |-> "", error |-> None, files |-> None,
     files_http |-> 0, results_files |-> <<>>, content_http |-> 0,
     phrases |-> <<>>]

\* response.raise_for_status() raises on a 4xx or 5xx answer
raises_for_status(http) == http >= 400

\* get_transcription_result from the test for Succeeded on
fetch_result(r) ==
    IF r.status # "Succeeded" THEN Returned(None)
    ELSE IF ~Truthy(r.files) THEN Returned(None)
    ELSE IF raises_for_status(r.files_http) THEN Raised("HTTPError")
    ELSE IF r.results_files = <<>> THEN Returned(None)
    ELSE IF ~Truthy(r.results_files[1]) THEN Returned(None)
    ELSE IF raises_for_status(r.content_http) THEN Raised("HTTPError")
    ELSE Returned(join(r.phrases))

\* (mutant) the test for Failed is missing: a failed job is "not succeeded"
get_transcription_result_untested(r) ==
    IF raises_for_status(r.status_http) THEN Raised("HTTPError")
    ELSE fetch_result(r)

\* BatchTranscriber.get_transcription_result; the message of a failed job
\* is read from properties.error.message, which raises AttributeError when
\* the answer has no properties
get_transcription_result(r) ==
    IF raises_for_status(r.status_http) THEN Raised("HTTPError")
    ELSE IF r.status = "Failed"
    THEN IF r.error = None THEN Raised("AttributeError")
         ELSE Raised("Transcription failed: " \o r.error)
    ELSE fetch_result(r)

\* the provider reports the job as failed
ReportsFailed(r) == ~raises_for_status(r.status_http) /\ r.status = "Failed"

\* what check_transcription can return, and the messages it can raise
CheckReturns ==
    {get_transcription_result(r).val :
        r \in {q \in ProviderResponses : ~get_transcription_result(q).raised}}
CheckRaises ==
    {get_transcription_result(r).val :
        r \in {q \in ProviderResponses : get_transcription_result(q).raised}}

-----------------------------------------------------------------------------
(* The runtime: history log, dispatcher, activity executor, durable timer. *)

Last(seq) == seq[Len(seq)]

IsScheduling(e) == e.type \in {"TaskScheduled", "TimerCreated"}
IsCompletion(e) == e.type \in {"TaskCompleted", "TaskFailed", "TimerFired"}
IsTerminal(st) == st \in {"Completed", "Failed"}

\* events of one type (and one activity name) in a history
EventsOf(hist, type) == {k \in 1..Len(hist) : hist[k].type = type}
TasksOf(hist, type, name) ==
    {k \in 1..Len(hist) : hist[k].type = type /\ hist[k].name = name}

TimersCreated(hist) == Cardinality(EventsOf(hist, "TimerCreated"))

\* the correlation id of the next task: tasks are numbered in schedule order
NextTaskId(hist) == Cardinality({k \in 1..Len(hist) : IsScheduling(hist[k])})

\* (mutant) the dispatcher also decides while the task it dispatched last
\* is still outstanding
DecidesWhileOutstanding(i) ==
    /\ status[i] \in {"Pending", "Running"}
    /\ history[i] # <<>>
    /\ Len(history[i]) < 8

\* (mutant) the dispatcher does not look at the status: a completed
\* instance is decided again
ResumesTerminal(i) ==
    /\ history[i] # <<>>
    /\ Len(history[i]) < 8
    /\ \/ IsCompletion(Last(history[i]))
       \/ Last(history[i]).type \in {"ExecutionStarted", "ExecutionCompleted"}

\* a completion (or the start) is in the history and no decision follows it
NeedsDecision(i) ==
    /\ status[i] \in {"Pending", "Running"}
    /\ history[i] # <<>>
    /\ \/ IsCompletion(Last(history[i]))
       \/ Last(history[i]).type = "ExecutionStarted"

\* last_failure and retried_at: when the latest failed attempt failed and
\* when the attempt after it was started (0 while there is none)
NoInflight ==
    [type |-> "none", id |-> 0, name |-> "", arg |-> <<>>, fireAt |-> 0,
     attempt |-> 0, max_attempts |-> 1, retry_interval |-> 0,
     last_failure |-> 0, retried_at |-> 0]

Dispatched(a, id) ==
    [type |-> a.type, id |-> id, name |-> a.name, arg |-> a.arg,
     fireAt |-> a.fireAt, attempt |-> 1, max_attempts |-> a.max_attempts,
     retry_interval |-> a.retry_interval, last_failure |-> 0,
     retried_at |-> 0]

Invocation(name, id, arg) == [name |-> name, id |-> id, arg |-> arg]

\* the indexes of the search service of the two uploads
IndexNames == {get_index_name(p) : p \in {"podcast-0", "podcast-1"}}

\* no index of that name (get_document_count raises ResourceNotFoundError)
NoIndex == [exists |-> FALSE, definition |-> None, documents |-> {}]

NoCall ==
    [activity |-> "", index_name |-> "", transcript |-> <<>>,
     result |-> NoCheck, runs |-> 0, before |-> NoIndex]

\* the generator not yet started, nothing scheduled
NoPoller == [g |-> NewGen, checks |-> 0, timers |-> 0]

NoRequest == [route |-> "", file |-> None, body |-> None]
NoResponse == [code |-> 0, kind |-> "none", id |-> ""]

\* datetime.utcnow().strftime('%Y%m%d-%H%M%S'): the time to the second
strftime(t) == ToString(t)

Init ==
    /\ clock = 0
    /\ status = [i \in AllInstances |-> "Absent"]
    /\ history = [i \in AllInstances |-> <<>>]
    /\ output = [i \in AllInstances |-> NoOutput]
    /\ inflight = [i \in AllInstances |-> NoInflight]
    /\ calls = [i \in AllInstances |-> <<>>]
    /\ crashes = 0
    /\ request = [i \in AllInstances |-> NoRequest]
    /\ response = [i \in AllInstances |-> NoResponse]
    /\ storage = {}
    /\ provider = NoProviderResponse
    /\ checked = NoCheck
    /\ search = [n \in IndexNames |-> NoIndex]
    /\ indexed = NoCall
    /\ poller = NoPoller

\* client.start_new(name, None, input): a new instance under a fresh id
start_new(i, name, input) ==
    /\ status' = [status EXCEPT ![i] = "Pending"]
    /\ history' = [history EXCEPT ![i] =
            <<Ev("OrchestratorStarted", 0, "", <<>>, None, clock),
              Ev("ExecutionStarted", 0, name, InputArg(input), None, clock)>>]

\* return {"error": str(e)}: the handler returns a dict, not a response
ErrorDict == [code |-> 0, kind |-> "error dict", id |-> ""]

\* func.HttpResponse(json.dumps({"error": ...}), status_code=code)
HttpResponse(code, kind) == [code |-> code, kind |-> kind, id |-> ""]

\* client.create_check_status_response(req, instance_id): 202 Accepted with
\* the instance id and the status-poll URL
create_check_status_response(instance_id) ==
    [code |-> 202, kind |-> "check status", id |-> instance_id]

\* uuid.uuid4(): fresh for every call (one call per request)
uuid4(i) == "uuid-" \o i

\* how far AzureBlobStorageService.upload_to_blob_storage and start_new get
UploadOutcomes ==
    {"container error", "append error", "start_new error", "started"}

\* the blobs after upload_to_blob_storage(file, container_name): the append
\* blob is created first and then filled block by block
upload_to_blob_storage(i, file, container_name, outcome) ==
    IF outcome = "container error" THEN storage
    ELSE storage \cup
            {[container |-> container_name,
              blob |-> uuid4(i) \o "_" \o file,
              complete |-> outcome # "append error"]}

\* (mutant) the orchestration is started before the upload is known to
\* have succeeded
StartsInstanceEarly(outcome) == outcome # "container error"

\* start_new is reached only after upload_to_blob_storage has returned
StartsInstance(outcome) == outcome = "started"

\* POST rag-test/process-audio
upload_podcast(i) ==
    /\ status[i] = "Absent"
    /\ response[i] = NoResponse
    /\ \E audio_file \in {None, "ep1.mp3"}, outcome \in UploadOutcomes :
        /\ request' = [request EXCEPT ![i] =
                [route |-> "rag-test/process-audio", file |-> audio_file,
                 body |-> None]]
        /\ IF ~Truthy(audio_file)
           THEN /\ response' = [response EXCEPT ![i] =
                       HttpResponse(400, "No file uploaded")]
                /\ UNCHANGED <<status, history, storage>>
           ELSE LET podcast_id == "podcast-" \o strftime(clock)
                    file_url == "blob://" \o podcast_id \o "/" \o uuid4(i)
                                   \o "_" \o audio_file
                IN  /\ storage' = upload_to_blob_storage(i, audio_file,
                                                         podcast_id, outcome)
                    /\ IF StartsInstance(outcome)
                       THEN /\ start_new(i, "transcribe_and_index_orchestrator",
                                   [NoInput EXCEPT !.file_url = file_url,
                                                   !.podcast_id = podcast_id])
                            /\ response' = [response EXCEPT ![i] =
                                   create_check_status_response(i)]
                       ELSE /\ response' = [response EXCEPT ![i] = ErrorDict]
                            /\ UNCHANGED <<status, history>>
    /\ UNCHANGED <<clock, output, inflight, calls, crashes, provider, checked, search,
                   indexed, poller>>

\* the request bodies of a query: not JSON at all, JSON without a query,
\* JSON with an empty query, JSON with a query
QueryBodies == {"", "{}", "{query: }", "{query: q1}"}

\* req.get_json() raises ValueError on a body that is not JSON
IsJson(body) == body # ""

\* req_body.get("query")
get_query(body) ==
    CASE body = "{query: q1}" -> "q1"
      [] body = "{query: }" -> ""
      [] OTHER -> None

\* POST rag-test/query
query_podcasts(i) ==
    /\ status[i] = "Absent"
    /\ response[i] = NoResponse
    /\ \E body \in QueryBodies, started \in BOOLEAN :
        /\ request' = [request EXCEPT ![i] =
                [route |-> "rag-test/query", file |-> None, body |-> body]]
        /\ IF ~IsJson(body)
           THEN /\ response' = [response EXCEPT ![i] =
                       HttpResponse(500, "ValueError")]
                /\ UNCHANGED <<status, history>>
           ELSE IF ~Truthy(get_query(body))
           THEN /\ response' = [response EXCEPT ![i] =
                       HttpResponse(400, "No query provided")]
                /\ UNCHANGED <<status, history>>
           ELSE IF ~started
           THEN /\ response' = [response EXCEPT ![i] =
                       HttpResponse(500, "start_new error")]
                /\ UNCHANGED <<status, history>>
           ELSE /\ start_new(i, "rag_query_orchestrator",
                       [NoInput EXCEPT !.query = get_query(body),
                                       !.index_name = "podcast-0-index"])
                /\ response' = [response EXCEPT ![i] =
                       create_check_status_response(i)]
    /\ UNCHANGED <<clock, output, inflight, calls, crashes, storage, provider,
                   checked, search,
                   indexed, poller>>

\* the event that records the decision of a replay: the task it scheduled
\* (numbered id) or the end of the instance
DecisionEvent(g, id) ==
    IF g.done
    THEN Ev("ExecutionCompleted", 0, g.result_status, <<g.result.tag>>,
            g.result.val, 0)
    ELSE IF g.action.type = "timer"
    THEN Ev("TimerCreated", id, "", <<>>, None, g.action.fireAt)
    ELSE Ev("TaskScheduled", id, g.action.name, g.action.arg, None, 0)

\* one decision cycle: replay the history, record and dispatch the action
Decide(i) ==
    /\ NeedsDecision(i)
    /\ \E g \in {Replay(history[i], clock)}, id \in {NextTaskId(history[i])} :
           IF g.done
           THEN /\ history' = [history EXCEPT ![i] = Append(@, DecisionEvent(g, id))]
                /\ status' = [status EXCEPT ![i] = g.result_status]
                /\ output' = [output EXCEPT ![i] = g.result]
                /\ UNCHANGED <<inflight, calls>>
           ELSE /\ history' = [history EXCEPT ![i] = Append(@, DecisionEvent(g, id))]
                /\ status' = [status EXCEPT ![i] = "Running"]
                /\ inflight' = [inflight EXCEPT ![i] = Dispatched(g.action, id)]
                /\ calls' = [calls EXCEPT ![i] =
                        IF g.action.type = "activity"
                        THEN Append(@, Invocation(g.action.name, id, g.action.arg))
                        ELSE @]
                /\ UNCHANGED output
    /\ UNCHANGED <<clock, crashes, request, response, storage,
                   provider, checked, search,
                   indexed, poller>>

\* (mutant) search_transcripts(..., top=6)
six == 5 + 1
\* search_transcripts(..., top=5) in process_rag_query
top == 5

\* the chunks the search returns, of those of the index that match the
\* query: the first `t` of them
search_transcripts(matches, t) == IF matches < t THEN matches ELSE t

\* the list of {"content": ..., "score": ...} of n search results
RECURSIVE excerpts(_)
excerpts(n) ==
    IF n = 0 THEN "" ELSE excerpts(n - 1) \o "{content, score}"

\* json.dumps({"answer": response, "sources": search_results})
rag_json(answer, n) ==
    "{answer: " \o answer \o ", sources: [" \o excerpts(n) \o "]}"

\* what process_rag_query returns for the answer of the language model and
\* the number of chunks of the index that match the query
process_rag_query(answer, matches) ==
    rag_json(answer, search_transcripts(matches, top))

\* the numbers of matching chunks an index can hold for a query
MatchCounts == {0, MaxMatches}

\* what an activity function can return
Results(name, hist) ==
    CASE name = "start_transcription" -> {"tid-1", ""}
      [] name = "check_transcription" ->
            IF TimersCreated(hist) < MaxPolls
            THEN CheckReturns ELSE {v \in CheckReturns : Truthy(v)}
      [] name = "create_search_index" -> {"created"}
      [] name = "index_transcript" -> {None}
      [] OTHER -> {process_rag_query("answer-1", m) : m \in MatchCounts}

\* the message of the exception an activity function can raise
FailureOf(name) == name \o " failed"

Failures(name) ==
    IF name = "check_transcription" THEN CheckRaises ELSE {FailureOf(name)}

Durations(name) ==
    IF name = "check_transcription" THEN CheckDurations ELSE OtherDurations

\* the activity function returns: its completion is appended
ActivitySucceeds(i) ==
    /\ inflight[i].type = "activity"
    /\ \E d \in Durations(inflight[i].name),
          val \in Results(inflight[i].name, history[i]) :
        /\ clock' = clock + d
        /\ history' = [history EXCEPT ![i] = @ \o
                <<Ev("OrchestratorStarted", 0, "", <<>>, None, clock + d),
                  Ev("TaskCompleted", inflight[i].id, inflight[i].name,
                     <<>>, val, 0)>>]
    /\ inflight' = [inflight EXCEPT ![i] = NoInflight]
    /\ UNCHANGED <<status, output, calls, crashes, request, response, storage,
                   provider, checked, search,
                   indexed, poller>>

\* the activity function raises: retried while the retry policy has
\* attempts left, else its failure is appended
ActivityFails(i) ==
    /\ inflight[i].type = "activity"
    /\ \E d \in Durations(inflight[i].name), msg \in Failures(inflight[i].name) :
        IF inflight[i].attempt < inflight[i].max_attempts
        THEN /\ clock' = clock + d + inflight[i].retry_interval
             /\ inflight' = [inflight EXCEPT
                    ![i].attempt = @ + 1,
                    ![i].last_failure = clock + d,
                    ![i].retried_at = clock + d + inflight[i].retry_interval]
             /\ calls' = [calls EXCEPT ![i] = Append(@,
                    Invocation(inflight[i].name, inflight[i].id, inflight[i].arg))]
             /\ UNCHANGED history
        ELSE /\ clock' = clock + d
             /\ history' = [history EXCEPT ![i] = @ \o
                    <<Ev("OrchestratorStarted", 0, "", <<>>, None, clock + d),
                      Ev("TaskFailed", inflight[i].id, inflight[i].name,
                         <<>>, msg, 0)>>]
             /\ inflight' = [inflight EXCEPT ![i] = NoInflight]
             /\ UNCHANGED calls
    /\ UNCHANGED <<status, output, crashes, request, response, storage,
                   provider, checked, search,
                   indexed, poller>>

\* (mutant) the fired timer is marked in place, on its TimerCreated event
TimerFiresInPlace(i) ==
    /\ inflight[i].type = "timer"
    /\ clock' = (IF clock < inflight[i].fireAt THEN inflight[i].fireAt ELSE clock)
    /\ history' = [history EXCEPT ![i] =
            SubSeq(@, 1, Len(@) - 1) \o
            <<Ev("OrchestratorStarted", 0, "", <<>>, None, clock'),
              Ev("TimerFired", inflight[i].id, "", <<>>, None,
                 inflight[i].fireAt)>>]
    /\ inflight' = [inflight EXCEPT ![i] = NoInflight]
    /\ UNCHANGED <<status, output, calls, crashes, request, response, storage,
                   provider, checked, search,
                   indexed, poller>>

\* the durable timer fires, at its fire time or later
TimerFires(i) ==
    /\ inflight[i].type = "timer"
    /\ LET t == IF clock < inflight[i].fireAt THEN inflight[i].fireAt ELSE clock
       IN  /\ clock' = t
           /\ history' = [history EXCEPT ![i] = @ \o
                <<Ev("OrchestratorStarted", 0, "", <<>>, None, t),
                  Ev("TimerFired", inflight[i].id, "", <<>>, None,
                     inflight[i].fireAt)>>]
    /\ inflight' = [inflight EXCEPT ![i] = NoInflight]
    /\ UNCHANGED <<status, output, calls, crashes, request, response, storage,
                   provider, checked, search,
                   indexed, poller>>

\* the dispatcher crashes with a completion appended and no decision made,
\* and restarts later
Crash(i) ==
    /\ NeedsDecision(i)
    /\ crashes < MaxCrashes
    /\ crashes' = crashes + 1
    /\ clock' = clock + RestartDelay
    /\ UNCHANGED <<status, history, output, inflight, calls, request, response,
                   storage, provider, checked, search,
                   indexed, poller>>

Next ==
    \E i \in SingleInstance :
        \/ upload_podcast(i)
        \/ query_podcasts(i)
        \/ Decide(i)
        \/ ActivitySucceeds(i)
        \/ ActivityFails(i)
        \/ TimerFires(i)
        \/ Crash(i)

Spec == Init /\ [][Next]_vars

-----------------------------------------------------------------------------
(* Properties *)

Prefix(hist, n) == SubSeq(hist, 1, n)

IsDecision(e) ==
    e.type \in {"TaskScheduled", "TimerCreated", "ExecutionCompleted"}

Transcribing(i) ==
    /\ history[i] # <<>>
    /\ history[i][2].name = "transcribe_and_index_orchestrator"

Querying(i) ==
    /\ history[i] # <<>>
    /\ history[i][2].name = "rag_query_orchestrator"

\* the timestamp of the decision cycle that a prefix of the history ends in
CycleTime(hist) ==
    LET ks == EventsOf(hist, "OrchestratorStarted")
    IN  hist[CHOOSE k \in ks : \A j \in ks : j <= k].ts

IsTrigger(e) == IsCompletion(e) \/ e.type = "ExecutionStarted"

\* the decisions recorded in a history, in order
RecordedDecisions(hist) == SelectSeq(hist, IsDecision)

\* the decisions a replay of hist emits, one after every prefix that ends in
\* a start or a completion; the replay runs at wall clock wall, or (wall < 0)
\* at the wall clock of the very cycle that appended the completion, as a
\* dispatcher that never crashed does
RECURSIVE ActionsFrom(_, _, _, _)
ActionsFrom(g, hist, wall, acc) ==
    IF hist = <<>> THEN acc
    ELSE LET e == Head(hist)
             g1 == ProcessEvent(g, e, IF wall < 0 THEN g.now ELSE wall)
         IN  ActionsFrom(g1, Tail(hist), wall,
                IF IsTrigger(e)
                THEN Append(acc, DecisionEvent(g1,
                                    Len(SelectSeq(acc, IsScheduling))))
                ELSE acc)

ReplayedActions(hist, wall) == ActionsFrom(NewGen, hist, wall, <<>>)
CrashFreeActions(hist) == ActionsFrom(NewGen, hist, -1, <<>>)

AgreesWith(recorded, replayed) ==
    /\ Len(recorded) <= Len(replayed)
    /\ \A n \in 1..Len(recorded) : recorded[n] = replayed[n]

\* C1: replaying an instance's history, at whatever the wall clock is at the
\* time of the replay, yields after every prefix the action that the
\* history records after that prefix: the same activity name and input, the
\* same timer fire time, the same terminal status and output.
C1_ReplayDeterministic ==
    \A i \in AllInstances :
        AgreesWith(RecordedDecisions(history[i]),
                   ReplayedActions(history[i], clock))

\* a transcription instance that has scheduled a poll timer is replayed
\* after the wall clock has moved past that timer's fire time
C1_Witness ==
    \E i \in AllInstances :
        /\ Transcribing(i)
        /\ IsTerminal(status[i])
        /\ \E k \in EventsOf(history[i], "TimerCreated") :
                history[i][k].ts < clock

\* C2: after a dispatcher crash between the append of a completion (or
\* timer fire) and the dispatch of the next action, the action recorded
\* next is the one a crash-free dispatcher decides in the cycle of that
\* completion; every completion is followed by exactly one decision (no
\* step is lost), tasks are numbered in schedule order, and the executor
\* invokes each scheduled activity under the one correlation id recorded
\* for it.
C2_CrashResumes ==
    \A i \in AllInstances :
        /\ AgreesWith(RecordedDecisions(history[i]),
                      CrashFreeActions(history[i]))
        /\ \A k \in 1..Len(history[i]) :
            /\ IsDecision(history[i][k]) =>
                    k > 2 /\ IsTrigger(history[i][k - 1])
            /\ (IsTrigger(history[i][k]) /\ k < Len(history[i])) =>
                    IsDecision(history[i][k + 1])
            /\ IsScheduling(history[i][k]) =>
                    history[i][k].id = NextTaskId(Prefix(history[i], k - 1))
        /\ \A c \in 1..Len(calls[i]) :
            \E k \in EventsOf(history[i], "TaskScheduled") :
                /\ history[i][k].id = calls[i][c].id
                /\ history[i][k].name = calls[i][c].name
                /\ history[i][k].arg = calls[i][c].arg
        /\ \A k \in EventsOf(history[i], "TaskScheduled") :
            \E c \in 1..Len(calls[i]) : calls[i][c].id = history[i][k].id

\* the dispatcher crashed before deciding on an empty check result; the
\* poll timer it created after the restart is already due
C2_Witness ==
    \E i \in AllInstances :
        /\ crashes > 0
        /\ inflight[i].type = "timer"
        /\ inflight[i].fireAt < clock

\* the frame of the generator when it yielded the task whose completion is
\* event k of the history
FrameBefore(hist, k) == Replay(Prefix(hist, k - 2), 0)

\* event k is a decision taken while polling on an empty result: after a
\* check that returned empty, or after a poll timer fired
PollingDecision(hist, k) ==
    /\ k > 2
    /\ IsDecision(hist[k])
    /\ \/ /\ FrameBefore(hist, k).pc = "L119"
          /\ hist[k - 1].type = "TaskCompleted"
          /\ ~Truthy(hist[k - 1].val)
       \/ FrameBefore(hist, k).pc = "L131"

\* C3: while check_transcription keeps returning empty, the first decision
\* taken at a current time at or past the expiry ends the instance as
\* Failed with a timeout message.
C3_TimeoutFails ==
    \A i \in AllInstances :
        Transcribing(i) =>
            \A k \in 1..Len(history[i]) :
                ( /\ PollingDecision(history[i], k)
                  /\ CycleTime(Prefix(history[i], k - 1))
                        >= FrameBefore(history[i], k).expiry_time ) =>
                    /\ history[i][k].type = "ExecutionCompleted"
                    /\ history[i][k].name = "Failed"
                    /\ history[i][k].arg = <<"error">>

\* C4: no poll timer of a transcription instance fires later than the
\* expiry of its polling window.
C4_TimerWithinExpiry ==
    \A i \in AllInstances :
        Transcribing(i) =>
            \A k \in EventsOf(history[i], "TimerCreated") :
                history[i][k].ts <= FrameBefore(history[i], k).expiry_time

\* C5: when start_transcription completes with an empty or null result the
\* instance ends at once as Failed with "transcription could not be
\* started", and no check_transcription and no timer is scheduled.
C5_StartFailureFails ==
    \A i \in AllInstances :
        ( /\ Transcribing(i)
          /\ \E k \in TasksOf(history[i], "TaskCompleted", "start_transcription") :
                ~Truthy(history[i][k].val)
          /\ ~NeedsDecision(i) ) =>
            /\ status[i] = "Failed"
            /\ output[i] = ErrorOutput("Transcription could not be started")
            /\ TasksOf(history[i], "TaskScheduled", "check_transcription") = {}
            /\ EventsOf(history[i], "TimerCreated") = {}

\* C6: an instance with a failed activity goes directly to Failed with the
\* error message; it is never Completed and returns no output that looks
\* successful.
C6_ActivityFailureFails ==
    \A i \in AllInstances :
        \A k \in EventsOf(history[i], "TaskFailed") :
            k < Len(history[i]) =>
                /\ history[i][k + 1].type = "ExecutionCompleted"
                /\ status[i] = "Failed"
                /\ output[i] = ErrorOutput(history[i][k].val)

\* the invocations the executor made for the task with correlation id
InvocationsOf(i, id) == {c \in 1..Len(calls[i]) : calls[i][c].id = id}

\* completed checks of a transcription history, by emptiness of the result
EmptyChecks(hist) ==
    {k \in TasksOf(hist, "TaskCompleted", "check_transcription") :
        ~Truthy(hist[k].val)}
ReadyChecks(hist) ==
    {k \in TasksOf(hist, "TaskCompleted", "check_transcription") :
        Truthy(hist[k].val)}

\* C7: when check_transcription returned empty k times and then a
\* non-empty transcript, the instance has created exactly k timers and
\* scheduled exactly k+1 checks, index_transcript receives that transcript
\* unchanged (with the instance's index name), and with no activity failed
\* the instance ends Completed with the index name as output.
C7_PollThenIndex ==
    \A i \in AllInstances :
        (Transcribing(i) /\ ReadyChecks(history[i]) # {}) =>
            LET hist == history[i]
                r == CHOOSE k \in ReadyChecks(hist) : TRUE
                index_name == InputOf(hist[2]).podcast_id \o "-index"
            IN  /\ ReadyChecks(hist) = {r}
                /\ TimersCreated(hist) = Cardinality(EmptyChecks(hist))
                /\ Cardinality(TasksOf(hist, "TaskScheduled", "check_transcription"))
                     = Cardinality(EmptyChecks(hist)) + 1
                /\ \A k \in TasksOf(hist, "TaskScheduled", "index_transcript") :
                     /\ k > r
                     /\ json_get(hist[k].arg, "transcript") = hist[r].val
                     /\ json_get(hist[k].arg, "index_name") = index_name
                /\ (IsTerminal(status[i]) /\ EventsOf(hist, "TaskFailed") = {}) =>
                     /\ status[i] = "Completed"
                     /\ output[i] = IndexNameOutput(index_name)
                     /\ TasksOf(hist, "TaskCompleted", "index_transcript") # {}
                     /\ TasksOf(hist, "TaskCompleted", "create_search_index") # {}

\* two empty checks, then a transcript: the instance completed after two
\* poll timers
C7_Witness ==
    \E i \in AllInstances :
        /\ Transcribing(i)
        /\ status[i] = "Completed"
        /\ output[i].tag = "index_name"
        /\ TimersCreated(history[i]) = 2
        /\ Cardinality(EmptyChecks(history[i])) = 2

\* C8: process_rag_query is never invoked more than 3 times for one query
\* instance, and its failure is in the history (and so reaches the
\* orchestrator) only after exactly 3 invocations, all of them failed.
C8_ThreeAttempts ==
    \A i \in AllInstances :
        Querying(i) =>
            /\ Len(calls[i]) <= 3
            /\ \A c \in 1..Len(calls[i]) : calls[i][c].name = "process_rag_query"
            /\ inflight[i].type = "activity" => inflight[i].attempt = Len(calls[i])
            /\ EventsOf(history[i], "TaskFailed") # {} => Len(calls[i]) = 3
            /\ output[i].tag = "error" => Len(calls[i]) = 3

\* a query instance ended with the error of its exhausted activity
C8_Witness ==
    \E i \in AllInstances :
        /\ Querying(i)
        /\ IsTerminal(status[i])
        /\ output[i] = ErrorOutput("process_rag_query failed")

\* C9 (as claimed): the failure of an activity of either workflow is
\* surfaced only after a retry: the failed task was invoked more than once.
C9_EveryActivityRetried ==
    \A i \in AllInstances :
        \A k \in EventsOf(history[i], "TaskFailed") :
            Cardinality(InvocationsOf(i, history[i][k].id)) > 1

\* C9 (amended): only process_rag_query has a retry policy: its failure is
\* surfaced after exactly 3 invocations; each activity of the
\* transcription workflow is invoked once per scheduling, its first failure
\* is surfaced at once and the instance ends on it with nothing further
\* scheduled.
C9_RetryOnlyForQuery ==
    \A i \in AllInstances :
        /\ \A k \in EventsOf(history[i], "TaskFailed") :
            /\ Cardinality(InvocationsOf(i, history[i][k].id))
                 = IF history[i][k].name = "process_rag_query" THEN 3 ELSE 1
            /\ k < Len(history[i]) =>
                 /\ history[i][k + 1].type = "ExecutionCompleted"
                 /\ k + 1 = Len(history[i])
        /\ Transcribing(i) =>
            /\ \A k \in EventsOf(history[i], "TaskScheduled") :
                 Cardinality(InvocationsOf(i, history[i][k].id)) = 1
            /\ inflight[i].type = "activity" => inflight[i].attempt = 1

\* a transcription instance ended on the single failure of a check
C9_Witness ==
    \E i \in AllInstances :
        /\ Transcribing(i)
        /\ IsTerminal(status[i])
        /\ TasksOf(history[i], "TaskFailed", "check_transcription") # {}
        /\ Len(calls[i]) = 2

-----------------------------------------------------------------------------
(* The HTTP starters *)

\* the blobs (whole or partial) that request i has put into storage
BlobsOf(i) ==
    {b \in storage : \E f \in {"ep1.mp3"} : b.blob = uuid4(i) \o "_" \o f}

\* request i carried nothing to work on: an upload without a file, a query
\* without a query
LacksPayload(i) ==
    \/ /\ request[i].route = "rag-test/process-audio"
       /\ ~Truthy(request[i].file)
    \/ /\ request[i].route = "rag-test/query"
       /\ ~Truthy(get_query(request[i].body))

\* C11: an upload request without a file and a query request without a
\* query are answered with a 4xx response, and for such a request no file
\* is stored and no workflow instance is created.
C11_ValidationRejected ==
    \A i \in AllInstances :
        LacksPayload(i) =>
            /\ response[i].code \in 400..499
            /\ BlobsOf(i) = {}
            /\ status[i] = "Absent"
            /\ history[i] = <<>>

\* C12: an upload request starts at most one workflow instance, and only
\* after its file upload has succeeded (its blob is whole, in the container
\* named by the podcast id the instance was given); the 202 response with
\* the instance id is returned only for a request whose instance was
\* started, and when the upload fails no instance is started.
C12_StartAfterUpload ==
    \A i \in AllInstances :
        /\ Cardinality(EventsOf(history[i], "ExecutionStarted")) <= 1
        /\ (request[i].route = "rag-test/process-audio"
                /\ status[i] # "Absent") =>
                \E b \in BlobsOf(i) :
                    /\ b.complete
                    /\ b.container = history[i][2].arg[2]
        /\ response[i].code = 202 =>
                /\ status[i] # "Absent"
                /\ response[i].id = i
        /\ (request[i].route = "rag-test/process-audio"
                /\ \A b \in BlobsOf(i) : ~b.complete) =>
                /\ status[i] = "Absent"
                /\ response[i].code # 202

\* an upload was accepted: its blob is stored whole and its instance runs
C12_Witness ==
    \E i \in AllInstances :
        /\ response[i].code = 202
        /\ Transcribing(i)
        /\ status[i] = "Running"
        /\ \E b \in BlobsOf(i) : b.complete

-----------------------------------------------------------------------------
(* One instance: sequential execution, the log, terminal states *)

\* the scheduled tasks of a history that have no completion after them
Outstanding(hist) ==
    {k \in 1..Len(hist) :
        /\ IsScheduling(hist[k])
        /\ \A j \in (k + 1)..Len(hist) :
                ~(IsCompletion(hist[j]) /\ hist[j].id = hist[k].id)}

\* C13: within one instance at most one activity or timer is scheduled and
\* not yet completed (it is the one the executor or the timer holds), and
\* a task is scheduled only when the completion of every task scheduled
\* before it is in the history.
C13_OneOutstanding ==
    \A i \in AllInstances :
        /\ Cardinality(Outstanding(history[i])) <= 1
        /\ \A k \in Outstanding(history[i]) :
                /\ inflight[i].type # "none"
                /\ inflight[i].id = history[i][k].id
        /\ inflight[i].type # "none" => Outstanding(history[i]) # {}
        /\ \A k \in 1..Len(history[i]) :
                IsScheduling(history[i][k]) =>
                    \A j \in 1..(k - 1) :
                        IsScheduling(history[i][j]) =>
                            \E m \in (j + 1)..(k - 1) :
                                /\ IsCompletion(history[i][m])
                                /\ history[i][m].id = history[i][j].id

\* a poll timer is outstanding after two checks have been scheduled and
\* completed before it
C13_Witness ==
    \E i \in AllInstances :
        /\ inflight[i].type = "timer"
        /\ Cardinality(TasksOf(history[i], "TaskCompleted",
                               "check_transcription")) >= 2
        /\ Cardinality(Outstanding(history[i])) = 1

\* C15: the history log of an instance is append-only: every step leaves
\* the log as it was or extends it, the events already in it stay as they
\* are, and the numbers the log gives out (the position of an event, the
\* correlation id of a scheduled task, the timestamp of a decision cycle)
\* grow in append order.
C15_AppendOnly ==
    [][\A i \in AllInstances :
        /\ Len(history'[i]) >= Len(history[i])
        /\ \A k \in 1..Len(history[i]) : history'[i][k] = history[i][k]
        /\ \A k \in (Len(history[i]) + 1)..Len(history'[i]) :
            \A j \in 1..(k - 1) :
                /\ (IsScheduling(history'[i][j]) /\ IsScheduling(history'[i][k]))
                        => history'[i][j].id < history'[i][k].id
                /\ (history'[i][j].type = "OrchestratorStarted"
                        /\ history'[i][k].type = "OrchestratorStarted")
                        => history'[i][j].ts <= history'[i][k].ts]_vars

\* a log that has grown through a fired timer and the check after it
C15_Witness ==
    \E i \in AllInstances :
        /\ EventsOf(history[i], "TimerFired") # {}
        /\ Cardinality(TasksOf(history[i], "TaskScheduled",
                               "check_transcription")) >= 2

-----------------------------------------------------------------------------
(* Two requests, two instances *)

\* the bound of the two-instance specification: the poll timers of both
\* instances together; a check answers no transcript yet (None) or the
\* transcript
WithinTwo ==
    /\ TimersCreated(history["i1"]) + TimersCreated(history["i2"])
            <= MaxPollsTwo
    /\ \A i \in AllInstances :
        \A k \in TasksOf(history[i], "TaskCompleted", "check_transcription") :
            history[i][k].val # ""

\* a step that stays within the bound, every activity attempt taking the
\* short duration
ShortStep ==
    /\ WithinTwo'
    /\ clock' - clock \notin (CheckDurations \ OtherDurations)

\* two uploads and their instances side by side
NextTwo ==
    \E i \in AllInstances :
        \/ upload_podcast(i) /\ ShortStep
        \/ Decide(i) /\ ShortStep
        \/ ActivitySucceeds(i) /\ ShortStep
        \/ TimerFires(i) /\ ShortStep

SpecTwo == Init /\ [][NextTwo]_vars

\* what belongs to instance i
InstanceState(i) ==
    <<status[i], history[i], output[i], inflight[i], calls[i]>>

\* the action the orchestrator decides if its history is replayed at wall
\* clock wall
NextDecision(hist, wall) ==
    DecisionEvent(Replay(hist, wall), NextTaskId(hist))

\* C19: workflow instances do not interfere: a step changes the state of at
\* most one instance, and it leaves the action that every other started
\* instance decides next as it was, so that each instance's sequence of
\* actions is the one its own log gives under every interleaving.
C19_NoInterference ==
    [][\A i \in AllInstances :
        /\ InstanceState(i)' # InstanceState(i) =>
                \A j \in AllInstances \ {i} :
                    InstanceState(j)' = InstanceState(j)
        /\ (history[i] # <<>> /\ history'[i] = history[i]) =>
                \A later \in {clock'} :
                    NextDecision(history[i], later)
                        = NextDecision(history[i], clock)
        /\ \A hist \in {history'[i]} :
                AgreesWith(RecordedDecisions(hist), CrashFreeActions(hist))]_vars

\* both instances have polled side by side: each has a completed check and
\* one waits on its poll timer while the other's later cycle has moved the
\* clock on
C19_Witness ==
    \E i, j \in AllInstances :
        /\ i # j
        /\ inflight[i].type = "timer"
        /\ TasksOf(history[j], "TaskCompleted", "check_transcription") # {}
        /\ CycleTime(history[j]) > CycleTime(history[i])

\* the podcast id an upload's instance was started with
PodcastIdOf(i) == InputOf(history[i][2]).podcast_id

\* the storage container of the blob that upload i stored
ContainerOf(i) == (CHOOSE b \in BlobsOf(i) : b.complete).container

\* C20: any two upload requests, also two received within the same second,
\* are given different podcast ids, and so different storage containers
\* and different search index names.
C20_DistinctPodcastIds ==
    \A i, j \in AllInstances :
        (i # j /\ Transcribing(i) /\ Transcribing(j)) =>
            /\ PodcastIdOf(i) # PodcastIdOf(j)
            /\ ContainerOf(i) # ContainerOf(j)
            /\ get_index_name(PodcastIdOf(i)) # get_index_name(PodcastIdOf(j))

-----------------------------------------------------------------------------
(* check_transcription against the provider *)

\* the provider answers the requests of the next check
ProviderAnswers ==
    /\ provider' \in ProviderResponses
    /\ checked' = NoCheck
    /\ UNCHANGED <<clock, status, history, output, inflight, calls, crashes,
                   request, response, storage, search, indexed, poller>>

\* the activity function: return transcriber.get_transcription_result(id)
check_transcription ==
    /\ provider # NoProviderResponse
    /\ checked = NoCheck
    /\ checked' = get_transcription_result(provider)
    /\ UNCHANGED <<clock, status, history, output, inflight, calls, crashes,
                   request, response, storage, provider, search, indexed, poller>>

NextProvider == ProviderAnswers \/ check_transcription

SpecProvider == Init /\ [][NextProvider]_vars

\* the provider answered the status request with a status that is neither
\* Failed nor Succeeded
ReportsNotDone(r) ==
    /\ ~raises_for_status(r.status_http)
    /\ r.status \notin {"Failed", "Succeeded"}

\* one of the requests that the check made to the provider failed (HTTP)
RequestFailed(r) ==
    \/ raises_for_status(r.status_http)
    \/ /\ r.status = "Succeeded"
       /\ Truthy(r.files)
       /\ \/ raises_for_status(r.files_http)
          \/ /\ r.results_files # <<>>
             /\ Truthy(r.results_files[1])
             /\ raises_for_status(r.content_http)

\* C17 as stated: for every provider status other than Failed and
\* Succeeded check_transcription returns null without error, and it fails
\* exactly when the provider reports the job as Failed.
C17_FailsExactlyOnFailed ==
    checked # NoCheck =>
        /\ ReportsNotDone(provider) => checked = Returned(None)
        /\ checked.raised <=> ReportsFailed(provider)

\* C17 as amended: for every reported status other than Failed and
\* Succeeded check_transcription returns null without error; it fails
\* whenever the provider reports the job as Failed, and apart from that
\* only when a request to the provider fails, never on a reported status
\* of a job that is not done; so the orchestrator gets a null result for
\* "not ready" and a failure for "failed".
C17_NotReadyIsNull ==
    checked # NoCheck =>
        /\ ReportsNotDone(provider) => checked = Returned(None)
        /\ ReportsFailed(provider) => checked.raised
        /\ checked.raised => (ReportsFailed(provider) \/ RequestFailed(provider))

\* the check has run on a job the provider reports as Failed with a message
C17_Witness ==
    /\ checked.raised
    /\ ReportsFailed(provider)
    /\ provider.error # None

\* the failure of a check whose provider reported the job as Failed
IsProviderFailure(msg) ==
    msg \in {get_transcription_result(r).val :
                r \in {q \in ProviderResponses : ReportsFailed(q)}}

\* C18: when the provider reports a terminal failure, the failed
\* check_transcription is not retried (it was invoked once), nothing is
\* scheduled after its failure, and the instance fails.
C18_ProviderFailureFails ==
    \A i \in AllInstances :
        Transcribing(i) =>
            \A k \in TasksOf(history[i], "TaskFailed", "check_transcription") :
                IsProviderFailure(history[i][k].val) =>
                    /\ Cardinality(InvocationsOf(i, history[i][k].id)) = 1
                    /\ k < Len(history[i]) =>
                            /\ k + 1 = Len(history[i])
                            /\ history[i][k + 1].type = "ExecutionCompleted"
                            /\ status[i] = "Failed"

-----------------------------------------------------------------------------
(* The poll loop: expiry, interval, order of the activities *)

\* the completions of start_transcription that gave a transcription id
Started(hist) ==
    {k \in TasksOf(hist, "TaskCompleted", "start_transcription") :
        Truthy(hist[k].val)}

\* C21 as stated: the expiry of a transcription instance is the workflow
\* start time plus 2 hours, in the frame of every replay.
C21_ExpiryFromStart ==
    \A i \in AllInstances :
        (Transcribing(i) /\ Started(history[i]) # {}) =>
            Replay(history[i], clock).expiry_time
                = history[i][1].ts + timedelta_hours(MaxWaitHours)

\* C21 as amended: the expiry is computed once, as the current time of the
\* decision cycle in which the transcription id arrives plus 2 hours, and
\* every later poll iteration, timer and replay (at whatever wall clock)
\* leaves it unchanged.
C21_ExpiryFromPollStart ==
    \A i \in AllInstances :
        Transcribing(i) =>
            \A k \in Started(history[i]) :
                Replay(history[i], clock).expiry_time
                    = history[i][k - 1].ts + timedelta_hours(MaxWaitHours)

\* an instance that has gone twice round the poll loop and is replayed
\* after a crash of the dispatcher
C21_Witness ==
    \E i \in AllInstances :
        /\ Transcribing(i)
        /\ Cardinality(EventsOf(history[i], "TimerFired")) >= 2
        /\ crashes > 0

\* the interval of the poll timer created at position k of a history: its
\* fire time less the current time of the decision cycle that created it
TimerInterval(hist, k) == hist[k].ts - hist[k - 2].ts

\* C22: the poll interval is one fixed constant: every poll timer is
\* created in the cycle of an empty check, to fire at that cycle's current
\* time plus the same interval, however many checks have returned empty
\* and however long the polling has lasted.
C22_FixedInterval ==
    \A i \in AllInstances :
        Transcribing(i) =>
            \A k \in EventsOf(history[i], "TimerCreated") :
                /\ history[i][k - 2].type = "OrchestratorStarted"
                /\ history[i][k - 1].type = "TaskCompleted"
                /\ TimerInterval(history[i], k)
                        = timedelta_seconds(PollIntervalSeconds)
                /\ \A j \in EventsOf(history[i], "TimerCreated") :
                        TimerInterval(history[i], j) = TimerInterval(history[i], k)

\* two poll timers, the second created after a check that took about an
\* hour
C22_Witness ==
    \E i \in AllInstances :
        /\ Transcribing(i)
        /\ \E j, k \in EventsOf(history[i], "TimerCreated") :
                history[i][k].ts - history[i][j].ts
                    > timedelta_seconds(PollIntervalSeconds) + 1

\* C23: the transcription is re-checked every 30 seconds: each poll timer
\* fires 30 seconds after the current time at which it was scheduled.
C23_ThirtySeconds ==
    \A i \in AllInstances :
        Transcribing(i) =>
            \A k \in EventsOf(history[i], "TimerCreated") :
                TimerInterval(history[i], k)
                    = timedelta_seconds(DocumentedPollSeconds)

-----------------------------------------------------------------------------
(* The query workflow *)

\* C24: retries of process_rag_query use a fixed backoff: the second and
\* the third attempt alike are started 3 seconds after the failure of the
\* attempt before, and no other activity is retried at all.
C24_FixedBackoff ==
    \A i \in AllInstances :
        inflight[i].attempt > 1 =>
            /\ inflight[i].name = "process_rag_query"
            /\ inflight[i].attempt <= max_number_of_attempts
            /\ inflight[i].retried_at - inflight[i].last_failure = 3
            /\ clock = inflight[i].retried_at

\* the third attempt of process_rag_query is under way
C24_Witness ==
    \E i \in AllInstances :
        /\ inflight[i].name = "process_rag_query"
        /\ inflight[i].attempt = 3

-----------------------------------------------------------------------------
(* Order of the activities of the transcription workflow *)

\* the event at position k schedules the activity name
Schedules(hist, k, name) ==
    hist[k].type = "TaskScheduled" /\ hist[k].name = name

\* the event before position k is the completion of activity name
FollowsCompletionOf(hist, k, name) ==
    /\ k > 1
    /\ hist[k - 1].type = "TaskCompleted"
    /\ hist[k - 1].name = name

\* the activities are scheduled in the order start_transcription,
\* check_transcription (one or more), create_search_index, index_transcript
ActivitiesInOrder(hist) ==
    \A k \in EventsOf(hist, "TaskScheduled") :
        /\ hist[k].name \in {"start_transcription", "check_transcription",
                             "create_search_index", "index_transcript"}
        /\ Schedules(hist, k, "start_transcription") => hist[k].id = 0
        /\ Schedules(hist, k, "check_transcription") =>
                /\ Started(hist) # {}
                /\ \/ FollowsCompletionOf(hist, k, "start_transcription")
                   \/ hist[k - 1].type = "TimerFired"
        /\ Schedules(hist, k, "create_search_index") =>
                /\ FollowsCompletionOf(hist, k, "check_transcription")
                /\ Truthy(hist[k - 1].val)
        /\ Schedules(hist, k, "index_transcript") =>
                FollowsCompletionOf(hist, k, "create_search_index")

\* C25: the activities run in the order start_transcription,
\* check_transcription (one or more), create_search_index, index_transcript;
\* create_search_index is scheduled only after a check returned a non-empty
\* transcript, index_transcript only after create_search_index completed,
\* and the instance is completed only after index_transcript completed.
C25_ActivityOrder ==
    \A i \in AllInstances :
        Transcribing(i) =>
            /\ ActivitiesInOrder(history[i])
            /\ \A k \in EventsOf(history[i], "ExecutionCompleted") :
                    history[i][k].name = "Completed" =>
                        FollowsCompletionOf(history[i], k, "index_transcript")

-----------------------------------------------------------------------------
(* Termination: a transcription that never becomes ready *)

\* check_transcription returns None (the job is not done), after an attempt
\* of one of the long durations
CheckStaysEmpty(i) ==
    /\ inflight[i].type = "activity"
    /\ inflight[i].name = "check_transcription"
    /\ \E d \in CheckDurations \ OtherDurations :
        /\ clock' = clock + d
        /\ history' = [history EXCEPT ![i] = @ \o
                <<Ev("OrchestratorStarted", 0, "", <<>>, None, clock + d),
                  Ev("TaskCompleted", inflight[i].id, inflight[i].name,
                     <<>>, None, 0)>>]
    /\ inflight' = [inflight EXCEPT ![i] = NoInflight]
    /\ UNCHANGED <<status, output, calls, crashes, request, response, storage,
                   provider, checked, search,
                   indexed, poller>>

\* start_transcription returns
StartCompletes(i) ==
    /\ inflight[i].name = "start_transcription"
    /\ ActivitySucceeds(i)

\* the instance is followed up to the horizon
BeforeHorizon == clock' <= Horizon

\* one upload whose transcription never becomes ready
NextLive ==
    \E i \in SingleInstance :
        \/ upload_podcast(i) /\ BeforeHorizon
        \/ Decide(i) /\ BeforeHorizon
        \/ StartCompletes(i) /\ BeforeHorizon
        \/ CheckStaysEmpty(i) /\ BeforeHorizon
        \/ ActivityFails(i) /\ BeforeHorizon
        \/ TimerFires(i) /\ BeforeHorizon
        \/ Crash(i) /\ BeforeHorizon

\* the dispatcher decides when a decision is due, every scheduled activity
\* completes or fails, every timer fires
Fairness ==
    \A i \in SingleInstance :
        /\ WF_vars(Decide(i) /\ BeforeHorizon)
        /\ WF_vars((StartCompletes(i) \/ CheckStaysEmpty(i) \/ ActivityFails(i))
                   /\ BeforeHorizon)
        /\ WF_vars(TimerFires(i) /\ BeforeHorizon)

SpecLive == Init /\ [][NextLive]_vars /\ Fairness

\* C26: every transcription instance eventually reaches a terminal state,
\* provided each scheduled activity eventually completes or fails and each
\* timer eventually fires; an instance whose transcription never becomes
\* ready ends by itself.
C26_EventuallyTerminal ==
    \A i \in SingleInstance :
        (status[i] \in {"Pending", "Running"}) ~> IsTerminal(status[i])

\* the instance has ended through the exit of the poll loop, its checks
\* never having returned a transcript
C26_Witness ==
    \E i \in SingleInstance :
        /\ IsTerminal(status[i])
        /\ output[i] = ValueOutput(None)
        /\ TimersCreated(history[i]) >= 1
        /\ EventsOf(history[i], "TaskFailed") = {}

-----------------------------------------------------------------------------
(* The result of the query workflow *)

\* completed process_rag_query attempts of a history
Answered(hist) == TasksOf(hist, "TaskCompleted", "process_rag_query")

\* the numbers of sources a process_rag_query result can carry
SourcesOf(v) == {n \in 0..(MaxMatches + 1) : v = rag_json("answer-1", n)}

\* C27: the output of a successful query instance is exactly the
\* {answer, sources} result of the one process_rag_query attempt that
\* succeeded, it carries at most 5 sources, and once an attempt has succeeded
\* process_rag_query is not invoked again.
C27_FirstSuccessIsOutput ==
    /\ [](\A i \in AllInstances :
            (Querying(i) /\ status[i] = "Completed"
                         /\ output[i].tag = "value") =>
                /\ Cardinality(Answered(history[i])) = 1
                /\ \A k \in Answered(history[i]) :
                    /\ output[i].val = history[i][k].val
                    /\ SourcesOf(history[i][k].val) # {}
                    /\ \A n \in SourcesOf(history[i][k].val) : n <= 5)
    /\ [][\A i \in AllInstances :
            (Querying(i) /\ Answered(history[i]) # {}) =>
                /\ calls'[i] = calls[i]
                /\ inflight'[i].type = "none"]_vars

\* a query instance has ended with the result of its third attempt, which
\* carries five sources
C27_Witness ==
    \E i \in AllInstances :
        /\ Querying(i)
        /\ status[i] = "Completed"
        /\ output[i] = ValueOutput(rag_json("answer-1", 5))
        /\ Len(calls[i]) = 3
        /\ crashes > 0

-----------------------------------------------------------------------------
(* The activities on the search service: create_search_index and           *)
(* index_transcript (function_app.py, services/search_service.py,          *)
(* services/index_creation_service.py, services/chunking_service.py).      *)

\* the index create_podcast_transcript_index defines: its fields, vector
\* search and semantic search
PodcastTranscriptIndex == "podcast transcript index"
\* an index of the name that was defined otherwise
OtherIndex == "index defined elsewhere"

\* CHUNK_SIZE and CHUNK_OVERLAP of the environment, in sentences
CHUNK_SIZE == 2
CHUNK_OVERLAP == 1

\* transcripts: the sentences recognized
Transcripts == {<<>>, <<"a">>, <<"b", "c", "d">>}

\* the requests to the search service or the embedding service that fail
Faults == {"none", "get_document_count", "create_or_update_index",
           "generate_embeddings", "upload_documents"}

\* json.dumps({"status": "exists", ...}) and json.dumps({"status": "created"})
StatusExists == "exists"
StatusCreated == "created"

\* self.chunker(transcript, overlap=self.chunk_overlap)
RECURSIVE chunker(_)
chunker(transcript) ==
    IF Len(transcript) <= CHUNK_SIZE THEN <<join(transcript)>>
    ELSE <<join(SubSeq(transcript, 1, CHUNK_SIZE))>> \o
         chunker(SubSeq(transcript, CHUNK_SIZE - CHUNK_OVERLAP + 1,
                        Len(transcript)))

chunk_transcript(transcript) ==
    IF transcript = <<>> THEN <<>> ELSE chunker(transcript)

\* embeddings = [item.embedding for item in raw_embeddings.data]
generate_embeddings(texts) ==
    [k \in 1..Len(texts) |-> "embedding of " \o texts[k]]

\* (mutant) doc_id = f"chunk-{i + 1}"
doc_id_from_one(i) == "chunk-" \o ToString(i + 1)

\* doc_id = f"chunk-{i}"
doc_id(i) == "chunk-" \o ToString(i)

\* the documents index_transcript_chunks builds from zip(chunks, embeddings)
documents_of(chunks, embeddings) ==
    LET n == IF Len(chunks) < Len(embeddings)
             THEN Len(chunks) ELSE Len(embeddings)
    IN  [k \in 1..n |-> [id |-> doc_id(k - 1),
                         content |-> chunks[k],
                         contentVector |-> embeddings[k]]]

\* search_client.upload_documents: a document replaces the one of its id
upload_documents(index, documents) ==
    [index EXCEPT !.documents =
        {d \in @ : \A k \in 1..Len(documents) : documents[k].id # d.id}
        \cup {documents[k] : k \in 1..Len(documents)}]

\* index_client.create_or_update_index(index)
create_or_update_index(index, definition) ==
    [index EXCEPT !.exists = TRUE, !.definition = definition]

\* (mutant) create_search_index without the check for an existing index
create_search_index_unchecked(s, indexName, fault) ==
    IF fault = "create_or_update_index"
    THEN [search |-> s, result |-> Raised("HttpResponseError")]
    ELSE [search |-> [s EXCEPT ![indexName] =
                        create_or_update_index(@, PodcastTranscriptIndex)],
          result |-> Returned(StatusCreated)]

\* the activity create_search_index: the search service after it and what
\* it returned or raised
create_search_index(s, indexName, fault) ==
    IF fault = "get_document_count"
    THEN [search |-> s, result |-> Raised("HttpResponseError")]
    ELSE IF s[indexName].exists
    THEN [search |-> s, result |-> Returned(StatusExists)]
    ELSE IF fault = "create_or_update_index"
    THEN [search |-> s, result |-> Raised("HttpResponseError")]
    ELSE [search |-> [s EXCEPT ![indexName] =
                        create_or_update_index(@, PodcastTranscriptIndex)],
          result |-> Returned(StatusCreated)]

\* the activity index_transcript
index_transcript(s, index_name, transcript, fault) ==
    LET chunks == chunk_transcript(transcript)
        embeddings == generate_embeddings(chunks)
    IN  IF fault = "generate_embeddings"
        THEN [search |-> s, result |-> Raised("OpenAIError")]
        ELSE IF ~s[index_name].exists
        THEN [search |-> s, result |-> Raised("ResourceNotFoundError")]
        ELSE IF fault = "upload_documents"
        THEN [search |-> s, result |-> Raised("HttpResponseError")]
        ELSE [search |-> [s EXCEPT ![index_name] =
                    upload_documents(@, documents_of(chunks, embeddings))],
              result |-> Returned(None)]

\* the record of a call: how many calls of the same activity with the same
\* argument have returned in a row, and the index before the first of them
Called(activity, n, transcript, result) ==
    LET again == /\ indexed.activity = activity
                 /\ indexed.index_name = n
                 /\ indexed.transcript = transcript
                 /\ ~indexed.result.raised
    IN  [activity |-> activity, index_name |-> n, transcript |-> transcript,
         result |-> result,
         runs |-> IF result.raised THEN 0
                  ELSE IF again THEN indexed.runs + 1 ELSE 1,
         before |-> IF again /\ ~result.raised
                    THEN indexed.before ELSE search[n]]

Unrelated ==
    UNCHANGED <<clock, status, history, output, inflight, calls, crashes,
                request, response, storage, provider, checked, poller>>

CreateSearchIndexRuns ==
    /\ \E n \in IndexNames, fault \in Faults :
        \E r \in {create_search_index(search, n, fault)} :
            /\ search' = r.search
            /\ indexed' = Called("create_search_index", n, <<>>, r.result)
    /\ indexed'.runs <= MaxRuns
    /\ Unrelated

IndexTranscriptRuns ==
    /\ \E n \in IndexNames, transcript \in Transcripts, fault \in Faults :
        \E r \in {index_transcript(search, n, transcript, fault)} :
            /\ search' = r.search
            /\ indexed' = Called("index_transcript", n, transcript, r.result)
    /\ indexed'.runs <= MaxRuns
    /\ Unrelated

\* an index of the name is created outside the workflow
IndexProvisioned ==
    /\ \E n \in IndexNames :
        /\ ~search[n].exists
        /\ search' = [search EXCEPT ![n] = create_or_update_index(@, OtherIndex)]
    /\ indexed' = NoCall
    /\ Unrelated

NextIndex == CreateSearchIndexRuns \/ IndexTranscriptRuns \/ IndexProvisioned

SpecIndex == Init /\ [][NextIndex]_vars

\* C28: create_search_index ensures that the index exists and is
\* idempotent: an index that exists is reported as "exists" and left as it
\* is, one that does not exist is created, and after one or several
\* successful calls in a row the index exists with the same definition.
C28_CreateIdempotent ==
    (indexed.activity = "create_search_index" /\ ~indexed.result.raised) =>
        LET n == indexed.index_name
        IN  /\ search[n].exists
            /\ indexed.before.exists =>
                    /\ search[n] = indexed.before
                    /\ indexed.result = Returned("exists")
            /\ ~indexed.before.exists =>
                    /\ search[n].definition = PodcastTranscriptIndex
                    /\ search[n].documents = {}
                    /\ indexed.result =
                        Returned(IF indexed.runs = 1 THEN "created" ELSE "exists")
            /\ create_search_index(search, n, "none").search = search

\* create_search_index has returned twice in a row for an index that did
\* not exist before
C28_Witness ==
    /\ indexed.activity = "create_search_index"
    /\ indexed.runs >= 2
    /\ ~indexed.before.exists
    /\ \E n \in IndexNames : search[n].definition = OtherIndex

\* the documents of the chunks of a transcript: ids chunk-0 .. chunk-(n-1)
ChunkDocuments(transcript) ==
    LET chunks == chunk_transcript(transcript)
    IN  {[id |-> "chunk-" \o ToString(j), content |-> chunks[j + 1],
          contentVector |-> "embedding of " \o chunks[j + 1]] :
            j \in 0..(Len(chunks) - 1)}

\* C29: index_transcript is idempotent under re-execution: after two or more
\* runs with the same index name and transcript the index holds the same
\* documents as after one, the documents chunk-0 .. chunk-(n-1) of the n
\* chunks, one per chunk.
C29_IndexIdempotent ==
    (indexed.activity = "index_transcript" /\ ~indexed.result.raised) =>
        LET n == indexed.index_name
            docs == ChunkDocuments(indexed.transcript)
        IN  /\ search[n].documents =
                    {d \in indexed.before.documents :
                        \A e \in docs : e.id # d.id} \cup docs
            /\ \A d, e \in docs : d.id = e.id => d = e
            /\ Cardinality(docs) = Len(chunk_transcript(indexed.transcript))
            /\ search[n].definition = indexed.before.definition
            /\ index_transcript(search, n, indexed.transcript, "none").search
                    = search

\* index_transcript has run twice in a row with a transcript of two chunks,
\* on an index that held the chunk of another transcript
C29_Witness ==
    /\ indexed.activity = "index_transcript"
    /\ indexed.runs >= 2
    /\ Len(chunk_transcript(indexed.transcript)) = 2
    /\ indexed.before.documents # {}
    /\ Cardinality(search[indexed.index_name].documents) = 2

-----------------------------------------------------------------------------
(* A check made after the provider reports the job as Succeeded *)

\* the provider reports the job as succeeded
ReportsSucceeded(r) ==
    ~raises_for_status(r.status_http) /\ r.status = "Succeeded"

\* the orchestrator of an upload, waiting for the result of a check
Polling ==
    after_start_transcription(
        transcribe_start(NewGen, [NoInput EXCEPT !.file_url = "blob-url",
                                                 !.podcast_id = "podcast-0"]),
        "tid-1", 0)

\* C30: once the provider reports the job as Succeeded, the first
\* check_transcription made afterwards ends the polling: the orchestrator
\* schedules no further timer and goes on to create_search_index, also when
\* the recognized text is empty or the result files are not listed.
C30_SucceededEndsPolling ==
    (checked # NoCheck /\ ReportsSucceeded(provider)) =>
        /\ ~checked.raised
        /\ \A g \in {after_check_transcription(Polling, checked.val, 0)} :
            /\ g.action.type = "activity"
            /\ g.action.name = "create_search_index"

-----------------------------------------------------------------------------
(* The poll loop over its whole window: the orchestrator of one upload is  *)
(* driven event by event, as the replay of its history drives it, while    *)
(* the transcription never becomes ready.                                   *)

\* how long a check takes (seconds): no time, a second, an hour
WindowDurations == {0, 1, 3590}

\* the generator after the events of one decision cycle: the time of the
\* cycle, then the completion that woke the orchestrator
Cycle(g, t, completion) ==
    ProcessEvent(ProcessEvent(g, Ev("OrchestratorStarted", 0, "", <<>>, None, t),
                              t),
                 completion, t)

\* the generator moved on: count the check or the timer it scheduled
Scheduled(g) ==
    [g |-> g,
     checks |-> poller.checks +
        (IF g.action.type = "activity" /\ g.action.name = "check_transcription"
         THEN 1 ELSE 0),
     timers |-> poller.timers + (IF g.action.type = "timer" THEN 1 ELSE 0)]

Elsewhere ==
    UNCHANGED <<status, history, output, inflight, calls, crashes, request,
                response, storage, provider, checked, search, indexed>>

\* client.start_new("transcribe_and_index_orchestrator", ...)
PollerStarts ==
    /\ poller.g.pc = "new"
    /\ poller' = Scheduled(Cycle(poller.g, clock,
            Ev("ExecutionStarted", 0, "transcribe_and_index_orchestrator",
               InputArg([NoInput EXCEPT !.file_url = "blob-url",
                                        !.podcast_id = "podcast-0"]),
               None, clock)))
    /\ UNCHANGED clock
    /\ Elsewhere

\* start_transcription returns the id of the job
PollerStarted ==
    /\ poller.g.action.type = "activity"
    /\ poller.g.action.name = "start_transcription"
    /\ \E d \in OtherDurations :
        /\ clock' = clock + d
        /\ poller' = Scheduled(Cycle(poller.g, clock + d,
                Ev("TaskCompleted", 0, "start_transcription", <<>>, "tid-1", 0)))
    /\ Elsewhere

\* check_transcription returns None: the job is not done
PollerChecked ==
    /\ poller.g.action.type = "activity"
    /\ poller.g.action.name = "check_transcription"
    /\ \E d \in WindowDurations :
        /\ clock' = clock + d
        /\ poller' = Scheduled(Cycle(poller.g, clock + d,
                Ev("TaskCompleted", 0, "check_transcription", <<>>, None, 0)))
    /\ Elsewhere

\* the poll timer fires at its fire time
PollerTimerFired ==
    /\ poller.g.action.type = "timer"
    /\ \E t \in {IF clock < poller.g.action.fireAt
                 THEN poller.g.action.fireAt ELSE clock} :
        /\ clock' = t
        /\ poller' = Scheduled(Cycle(poller.g, t,
                Ev("TimerFired", 0, "", <<>>, None, poller.g.action.fireAt)))
    /\ Elsewhere

NextWindow == PollerStarts \/ PollerStarted \/ PollerChecked \/ PollerTimerFired

SpecWindow == Init /\ [][NextWindow]_vars

\* C31: the poll timers and the check_transcription activities of one
\* transcription instance are bounded by the polling window divided by the
\* poll interval: at most 720 timers and at most 720 checks are scheduled,
\* however long each check takes.
C31_AtMost720 ==
    /\ poller.checks <= 720
    /\ poller.timers <= 720
    /\ poller.checks * timedelta_seconds(PollIntervalSeconds)
            <= timedelta_hours(MaxWaitHours)
    /\ poller.timers <= poller.checks

\* the loop has ended at the expiry after 720 checks and 720 timers
C31_Witness ==
    /\ poller.g.done
    /\ poller.checks = 720
    /\ poller.timers = 720

-----------------------------------------------------------------------------
(* The index name of a transcription instance *)

\* the activity of that name was scheduled, with one argument list, and
\* completed
CompletedWith(hist, name) ==
    {hist[k].arg : k \in {j \in TasksOf(hist, "TaskScheduled", name) :
        \E c \in TasksOf(hist, "TaskCompleted", name) :
            c > j /\ hist[c].id = hist[j].id}}

\* C32: a transcription instance that completed successfully outputs the
\* index name podcast_id + "-index"; create_search_index and
\* index_transcript of the instance were given that same name; and the
\* output is produced only when both activities succeeded.
C32_IndexNameOutput ==
    \A i \in AllInstances :
        Transcribing(i) =>
            LET hist == history[i]
                name == InputOf(hist[2]).podcast_id \o "-index"
            IN  /\ ( /\ status[i] = "Completed"
                     /\ TasksOf(hist, "TaskCompleted", "index_transcript") # {} )
                        => output[i] = IndexNameOutput(name)
                /\ output[i].tag = "index_name" =>
                    /\ status[i] = "Completed"
                    /\ output[i].val = name
                    /\ CompletedWith(hist, "create_search_index") = {<<name>>}
                    /\ \E arg \in CompletedWith(hist, "index_transcript") :
                        /\ CompletedWith(hist, "index_transcript") = {arg}
                        /\ json_get(arg, "index_name") = name
                    /\ EventsOf(hist, "TaskFailed") = {}
                /\ \A k \in TasksOf(hist, "TaskScheduled", "create_search_index") :
                        hist[k].arg = <<name>>
                /\ \A k \in TasksOf(hist, "TaskScheduled", "index_transcript") :
                        json_get(hist[k].arg, "index_name") = name

\* an upload has ended with its index name after one empty check and a
\* restart of the host
C32_Witness ==
    \E i \in AllInstances :
        /\ Transcribing(i)
        /\ output[i] = IndexNameOutput("podcast-0-index")
        /\ TimersCreated(history[i]) = 1
        /\ crashes > 0

====
